---- MODULE Spec2Model ----
(***************************************************************************)
(* A model of lib/fortune.js: the Fortune facade over an express router    *)
(* and a storage adapter.  JavaScript strings that the code splits,        *)
(* concatenates or searches are sequences of one-character strings;        *)
(* JavaScript values whose type the code inspects are records carrying     *)
(* their type.                                                             *)
(***************************************************************************)
EXTENDS Integers, Sequences, FiniteSets, TLC

VARIABLES
  ctorArg,      \* the argument handed to create(options)
  ctor,         \* outcome of the constructor: status and this.options
  corsUsed,     \* whether _init installed the allowCrossDomain middleware
  origins,      \* the `origins` variable closed over by the middleware
  nreq,         \* number of requests handled so far
  lastReq,      \* the last request seen by the router
  lastRes,      \* what the CORS middleware did to the last request
  namespace,    \* options.namespace of each instance
  _resource,    \* this._resource of each instance
  conn,         \* state of each adapter's connection promise
  pending,      \* callbacks queued on each connection promise, FIFO
  models,       \* names for which each adapter holds a model
  routes,       \* router.routes of each instance: verb -> list of paths
  _schema,      \* Fortune.prototype._schema
  _before,      \* Fortune.prototype._before
  _after,       \* Fortune.prototype._after
  hist,         \* per instance and name: what was asked of resource(), the adapter and _route
  lastNamed,    \* per instance: the name given to the latest resource() call
  lastOp        \* the operation performed by the latest step

optVars  == <<ctorArg, ctor>>
corsVars == <<corsUsed, origins, nreq, lastReq, lastRes>>
appVars  == <<namespace, _resource, conn, pending, models, routes,
              _schema, _before, _after, hist, lastNamed, lastOp>>
vars     == <<ctorArg, ctor, corsUsed, origins, nreq, lastReq, lastRes,
              namespace, _resource, conn, pending, models, routes,
              _schema, _before, _after, hist, lastNamed, lastOp>>

(***************************************************************************)
(* Bounds.                                                                 *)
(***************************************************************************)
MaxSupplied == 2     \* keys a caller supplies in one options object
MaxRequests == 3     \* requests sent through one router
MaxCalls    == 3     \* API calls made on the instance of the resource specification
MaxRegCalls == 2     \* API calls made on the two instances of the registry specification
MaxTokens   == 2     \* space-separated pieces of a transform name argument

Range(f) == {f[x] : x \in DOMAIN f}

(***************************************************************************)
(* JavaScript values.                                                      *)
(***************************************************************************)
Prim(t, v)   == [type |-> t, val |-> v, hasOrigins |-> FALSE, origins |-> <<>>]
Undefined    == Prim("undefined", "undefined")
Null         == Prim("null", "null")
JTrue        == Prim("boolean", "true")
JFalse       == Prim("boolean", "false")
JStr(s)      == Prim("string", s)
JNum(n)      == Prim("number", n)
EmptyObj     == Prim("object", "{}")
CorsObj(l)   == [type |-> "object", val |-> "{origins}", hasOrigins |-> TRUE, origins |-> l]

\* the typeof operator
TypeOf(v) == IF v.type = "null" THEN "object" ELSE v.type

\* ToBoolean
Truthy(v) ==
  CASE v.type = "undefined" -> FALSE
    [] v.type = "null"      -> FALSE
    [] v.type = "boolean"   -> v.val = "true"
    [] v.type = "string"    -> v.val # ""
    [] v.type = "number"    -> v.val # "0"
    [] OTHER                -> TRUE

(***************************************************************************)
(* Options: Fortune.prototype._defaults and the merge in _init.            *)
(***************************************************************************)
DefaultKeyOrder ==
  <<"adapter", "host", "port", "db", "username", "password", "flags",
    "baseUrl", "namespace", "cors", "production">>

_defaults ==
  [k \in Range(DefaultKeyOrder) |->
     CASE k = "adapter"    -> JStr("nedb")
       [] k = "host"       -> JStr("localhost")
       [] k = "port"       -> Null
       [] k = "db"         -> JStr("fortune")
       [] k = "username"   -> JStr("")
       [] k = "password"   -> JStr("")
       [] k = "flags"      -> EmptyObj
       [] k = "baseUrl"    -> JStr("")
       [] k = "namespace"  -> JStr("")
       [] k = "cors"       -> JTrue
       [] k = "production" -> JFalse]

\* An argument of create(): a value, with own properties when it is an object.
ObjArg(props) == [v |-> EmptyObj, props |-> props]
PrimArg(v)    == [v |-> v, props |-> <<>>]

\* for(var key in this._defaults) if(!options.hasOwnProperty(key)) options[key] = ...
RECURSIVE MergeDefaults(_, _)
MergeDefaults(opts, i) ==
  IF i > Len(DefaultKeyOrder) THEN opts
  ELSE LET key == DefaultKeyOrder[i]
       IN  MergeDefaults(IF key \in DOMAIN opts THEN opts
                         ELSE (key :> _defaults[key]) @@ opts,
                         i + 1)

\* The options part of _init: the outcome of the constructor for an argument.
InitOptions(arg) ==
  IF TypeOf(arg.v) # "object"
    THEN [status |-> "ok", options |-> MergeDefaults(<<>>, 1)]
  ELSE IF arg.v.type = "null"
    THEN [status |-> "TypeError", options |-> <<>>]   \* null.hasOwnProperty
  ELSE [status |-> "ok", options |-> MergeDefaults(arg.props, 1)]

(***************************************************************************)
(* CORS: allowCrossDomain and its installation by _init.                   *)
(***************************************************************************)
StarStr == <<"*">>
OArr(l) == [kind |-> "array",  arr |-> l,    str |-> <<>>]
OStr(s) == [kind |-> "string", arr |-> <<>>, str |-> s]

\* typeof options.cors == 'boolean' || typeof options.cors == 'object' && options.cors
UsesCors(c) == TypeOf(c) = "boolean" \/ (TypeOf(c) = "object" /\ Truthy(c))

\* origins = cors.origins || '*'
ClosureOrigins(c) == IF c.hasOrigins THEN OArr(c.origins) ELSE OStr(StarStr)

\* Array.prototype.indexOf: zero-based index of the first equal element, or -1
ArrayIndexOf(arr, x) ==
  IF \E i \in 1..Len(arr) : arr[i] = x
    THEN (CHOOSE i \in 1..Len(arr) :
            arr[i] = x /\ \A j \in 1..(i - 1) : arr[j] # x) - 1
    ELSE -1

\* String.prototype.indexOf: zero-based index of the first occurrence, or -1
Occurs(s, sub, i) ==
  i + Len(sub) - 1 <= Len(s) /\ SubSeq(s, i, i + Len(sub) - 1) = sub
StringIndexOf(s, sub) ==
  IF \E i \in 1..(Len(s) + 1) : Occurs(s, sub, i)
    THEN (CHOOSE i \in 1..(Len(s) + 1) :
            Occurs(s, sub, i) /\ \A j \in 1..(i - 1) : ~Occurs(s, sub, j)) - 1
    ELSE -1

IndexOf(o, x) ==
  IF o.kind = "array" THEN ArrayIndexOf(o.arr, x) ELSE StringIndexOf(o.str, x)

NoRes == [ran |-> FALSE, acHeaders |-> FALSE, acao |-> OStr(<<>>),
          nexts |-> 0, sends |-> 0]

\* The function returned by allowCrossDomain, applied to one request with
\* the closure variable `origins` as o: the new closure value and the effect.
Middleware(o, req) ==
  IF req.origin = <<>>                       \* !req.get('Origin')
    THEN [origins |-> o,
          res |-> [NoRes EXCEPT !.ran = TRUE, !.nexts = 1]]
  ELSE
    LET checked == o # OStr(StarStr)
        found   == checked /\ IndexOf(o, req.origin) # 0
        o2      == IF found THEN OStr(req.origin) ELSE o
        early   == IF checked /\ ~found THEN 1 ELSE 0
    IN  [origins |-> o2,
         res |-> [ran |-> TRUE, acHeaders |-> TRUE, acao |-> o2,
                  nexts |-> early + (IF req.method = "OPTIONS" THEN 0 ELSE 1),
                  sends |-> IF req.method = "OPTIONS" THEN 1 ELSE 0]]

(***************************************************************************)
(* create(options): new Fortune(options), i.e. _init.                      *)
(***************************************************************************)
Create(arg) ==
  /\ ctor.status = "none"
  /\ ctorArg' = arg
  /\ ctor' = InitOptions(arg)
  /\ IF ctor'.status = "ok" /\ UsesCors(ctor'.options["cors"])
       THEN /\ corsUsed' = TRUE
            /\ origins' = ClosureOrigins(ctor'.options["cors"])
       ELSE /\ corsUsed' = FALSE
            /\ origins' = origins
  /\ UNCHANGED <<nreq, lastReq, lastRes>>
  /\ UNCHANGED appVars

\* One request travelling through the router's middleware stack.
Request(req) ==
  /\ ctor.status = "ok"
  /\ nreq < MaxRequests
  /\ nreq' = nreq + 1
  /\ lastReq' = req
  /\ IF corsUsed
       THEN /\ origins' = Middleware(origins, req).origins
            /\ lastRes' = Middleware(origins, req).res
       ELSE /\ origins' = origins
            /\ lastRes' = NoRes
  /\ UNCHANGED <<ctorArg, ctor, corsUsed>>
  /\ UNCHANGED appVars

(***************************************************************************)
(* Resources, schemas and routes.                                          *)
(***************************************************************************)
Instances == {1, 2}

Cat == <<"c", "a", "t">>
Dog == <<"d", "o", "g">>
ResNames == {Cat, Dog}

Verbs == {"get", "post", "put", "patch", "delete"}

\* inflect.pluralize, for the regular nouns used as resource names
Pluralize(name) ==
  IF name = <<>> \/ name[Len(name)] = "s" THEN name ELSE name \o <<"s">>

\* A schema argument: an object with own fields, or something that is not an object.
ObjSchema(fields) == [isObj |-> TRUE, fields |-> fields]
NonObjSchema      == [isObj |-> FALSE, fields |-> <<>>]

ReservedKeys == <<"id", "href", "links">>

\* ['id', 'href', 'links'].forEach(... delete schema[reservedKey] ...)
RECURSIVE ScrubFrom(_, _)
ScrubFrom(fields, i) ==
  IF i > Len(ReservedKeys) THEN fields
  ELSE LET key == ReservedKeys[i]
       IN  ScrubFrom(IF key \in DOMAIN fields
                       THEN [f \in DOMAIN fields \ {key} |-> fields[f]]
                       ELSE fields,
                     i + 1)

\* A scrub that forgets the reserved keys after the first one.
ScrubIdOnly(fields) ==
  IF "id" \in DOMAIN fields
    THEN [f \in DOMAIN fields \ {"id"} |-> fields[f]]
    ELSE fields

_scrubSchema(fields) == ScrubFrom(fields, 1)

\* adapter.model(name) with one argument: the model, if the adapter holds one
AdapterHasModel(i, name) == name \in models[i]

\* The paths of a resource's endpoints: the collection and its items.
CollectionRoute(ns, name) == ns \o <<"/">> \o Pluralize(name)
IndividualRoute(ns, name) == CollectionRoute(ns, name) \o <<"/", ":", "i", "d">>

\* _route(name, model): a collection and an item endpoint for every verb
_route(rs, ns, name) ==
  [verb \in Verbs |->
     rs[verb] \o <<CollectionRoute(ns, name), IndividualRoute(ns, name)>>]

\* new RegExp('\/' + collection).test(path)
ReTest(re, path) == StringIndexOf(path, re) # -1

\* _.contains(routes, path)
Contains(list, x) == \E k \in 1..Len(list) : list[k] = x

RemoveAt(s, k) == SubSeq(s, 1, k - 1) \o SubSeq(s, k + 1, Len(s))

\* routes ? _.contains(routes, route.path) : re.test(route.path)
RouteMatches(cb, path) ==
  IF cb.hasRoutes THEN Contains(cb.routes, path) ELSE ReTest(cb.re, path)

\* paths.forEach(function(route, index) { if(...) paths.splice(index, 1); }):
\* forEach visits the indices 0 .. len0 - 1 of the array it started with and
\* skips an index that the array no longer has.
RECURSIVE ForEachSplice(_, _, _, _)
ForEachSplice(paths, cb, index, len0) ==
  IF index >= len0 THEN paths
  ELSE IF index < Len(paths) /\ RouteMatches(cb, paths[index + 1])
    THEN ForEachSplice(RemoveAt(paths, index + 1), cb, index + 1, len0)
  ELSE ForEachSplice(paths, cb, index + 1, len0)

\* A removal that walks the routes of every verb instead of the given methods.
RemoveRoutesAllVerbs(rs, cb) ==
  [verb \in Verbs |-> ForEachSplice(rs[verb], cb, 0, Len(rs[verb]))]

\* The callback that _removeRoutes queues on the connection promise.  A verb
\* without routes has nothing to visit.
RemoveRoutesCallback(rs, cb) ==
  [verb \in Verbs |->
     IF verb \in cb.methods
       THEN ForEachSplice(rs[verb], cb, 0, Len(rs[verb]))
       ELSE rs[verb]]

NoFields == <<>>

RegisterCb(name, fields) ==
  [kind |-> "register", name |-> name, fields |-> fields,
   methods |-> {}, hasRoutes |-> FALSE, routes |-> <<>>, re |-> <<>>]
RemoveCb(name, methods, hasRoutes, list) ==
  [kind |-> "remove", name |-> name, fields |-> NoFields,
   methods |-> methods, hasRoutes |-> hasRoutes, routes |-> list,
   re |-> <<"/">> \o Pluralize(name)]

NoHist ==
  [calls |-> 0, first |-> NoFields, defined |-> FALSE, readOnly |-> FALSE,
   noIndex |-> FALSE, runs |-> 0, fails |-> 0, schemaCalls |-> 0, routeCalls |-> 0,
   supplied |-> NoFields, handed |-> NoFields]

Op(op, i, name) == [op |-> op, inst |-> i, name |-> name, args |-> <<>>, threw |-> FALSE]

\* awaitConnection().then(callback): queued in order; a rejected promise
\* never runs a fulfilment callback.
Then(i, cb) ==
  IF conn[i] = "rejected" THEN pending[i] ELSE Append(pending[i], cb)

Calls(i) == hist[i].ncalls

\* resource(name, schema)
Resource(i, name, schema) ==
  /\ _resource' = [_resource EXCEPT ![i] = name]
  /\ lastNamed' = [lastNamed EXCEPT ![i] = name]
  /\ lastOp' = Op("resource", i, name)
  /\ IF ~schema.isObj
       THEN /\ hist' = [hist EXCEPT ![i].ncalls = @ + 1]
            /\ UNCHANGED pending
     ELSE IF AdapterHasModel(i, name)
       THEN /\ hist' = [hist EXCEPT ![i].ncalls = @ + 1,
                                    ![i].byName[name].calls = @ + 1]
            /\ UNCHANGED pending
     ELSE /\ pending' = [pending EXCEPT ![i] = Then(i, RegisterCb(name, schema.fields))]
          /\ hist' = [hist EXCEPT
               ![i].ncalls = @ + 1,
               ![i].byName[name] =
                  [@ EXCEPT !.calls = @ + 1,
                            !.defined = TRUE,
                            !.first = IF hist[i].byName[name].calls = 0
                                        THEN schema.fields ELSE @]]
  /\ UNCHANGED <<namespace, conn, models, routes, _schema, _before, _after>>
  /\ UNCHANGED <<optVars, corsVars>>

\* _removeRoutes(name, methods, routes)
_removeRoutes(i, name, methods, hasRoutes, list) ==
  pending' = [pending EXCEPT ![i] = Then(i, RemoveCb(name, methods, hasRoutes, list))]

\* readOnly(name): name is a resource name, or absent
ReadOnly(i, hasName, nameArg) ==
  LET name == IF hasName THEN nameArg ELSE _resource[i]
  IN  /\ _removeRoutes(i, name, {"post", "put", "patch", "delete"}, FALSE, <<>>)
      /\ lastOp' = Op("readOnly", i, name)
      /\ hist' = [hist EXCEPT
           ![i].ncalls = @ + 1,
           ![i].byName = [n \in ResNames |->
              IF n = name /\ @[n].defined /\ conn[i] # "rejected"
                THEN [@[n] EXCEPT !.readOnly = TRUE] ELSE @[n]]]
      /\ UNCHANGED <<namespace, _resource, lastNamed, conn, models, routes,
                     _schema, _before, _after>>
      /\ UNCHANGED <<optVars, corsVars>>

\* noIndex(name): name is a resource name, or absent
NoIndex(i, hasName, nameArg) ==
  LET name  == IF hasName THEN nameArg ELSE _resource[i]
      index == namespace[i] \o <<"/">> \o Pluralize(name)
  IN  /\ _removeRoutes(i, name, {"get"}, TRUE, <<index>>)
      /\ lastOp' = Op("noIndex", i, name)
      /\ hist' = [hist EXCEPT
           ![i].ncalls = @ + 1,
           ![i].byName = [n \in ResNames |->
              IF n = name THEN [@[n] EXCEPT !.noIndex = TRUE] ELSE @[n]]]
      /\ UNCHANGED <<namespace, _resource, lastNamed, conn, models, routes,
                     _schema, _before, _after>>
      /\ UNCHANGED <<optVars, corsVars>>

\* The adapter's connection promise resolves.
Connect(i) ==
  /\ conn[i] = "pending"
  /\ conn' = [conn EXCEPT ![i] = "resolved"]
  /\ lastOp' = Op("connect", i, <<>>)
  /\ UNCHANGED <<namespace, _resource, lastNamed, pending, models, routes,
                 _schema, _before, _after, hist>>
  /\ UNCHANGED <<optVars, corsVars>>

\* The adapter's connection promise rejects: the fulfilment callbacks are
\* dropped, and resource()'s rejection handler rethrows.
ConnectFail(i) ==
  /\ conn[i] = "pending"
  /\ conn' = [conn EXCEPT ![i] = "rejected"]
  /\ pending' = [pending EXCEPT ![i] = <<>>]
  /\ lastOp' = Op("connectFail", i, <<>>)
  /\ UNCHANGED <<namespace, _resource, lastNamed, models, routes,
                 _schema, _before, _after, hist>>
  /\ UNCHANGED <<optVars, corsVars>>

\* The callback of resource(): runs once the connection has resolved.  The
\* adapter or the routing may throw: fail names the call that throws.
RunRegister(i, fail) ==
  /\ conn[i] = "resolved"
  /\ pending[i] # <<>>
  /\ Head(pending[i]).kind = "register"
  /\ LET cb       == Head(pending[i])
         name     == cb.name
         scrubbed == _scrubSchema(cb.fields)
     IN  /\ pending' = [pending EXCEPT ![i] = Tail(@)]
         /\ _schema' = (name :> scrubbed) @@ _schema
         /\ models' = [models EXCEPT ![i] =
                         IF fail \in {"schema", "model"} THEN @ ELSE @ \cup {name}]
         /\ routes' = [routes EXCEPT ![i] =
                         IF fail = "none" THEN _route(@, namespace[i], name) ELSE @]
         /\ hist' = [hist EXCEPT ![i].byName[name] =
              [@ EXCEPT !.runs = @ + 1,
                        !.fails = IF fail = "none" THEN @ ELSE @ + 1,
                        !.schemaCalls = @ + 1,
                        !.routeCalls = IF fail \in {"schema", "model"} THEN @ ELSE @ + 1,
                        !.supplied = cb.fields,
                        !.handed = scrubbed]]
         /\ lastOp' = [Op("register", i, name) EXCEPT !.threw = (fail # "none")]
  /\ UNCHANGED <<namespace, _resource, lastNamed, conn, _before, _after>>
  /\ UNCHANGED <<optVars, corsVars>>

\* The callback of _removeRoutes: runs once the connection has resolved.
RunRemove(i) ==
  /\ conn[i] = "resolved"
  /\ pending[i] # <<>>
  /\ Head(pending[i]).kind = "remove"
  /\ pending' = [pending EXCEPT ![i] = Tail(@)]
  /\ routes' = [routes EXCEPT ![i] = RemoveRoutesCallback(@, Head(pending[i]))]
  /\ lastOp' = [Op("remove", i, Head(pending[i]).name) EXCEPT
                  !.args = Head(pending[i]).routes]
  /\ UNCHANGED <<namespace, _resource, lastNamed, conn, models,
                 _schema, _before, _after, hist>>
  /\ UNCHANGED <<optVars, corsVars>>

(***************************************************************************)
(* Transforms.                                                             *)
(***************************************************************************)
\* Arguments of before, after and transform: a string, a function, or undefined.
AStr(str) == [type |-> "string",    str |-> str,  fn |-> ""]
AFn(fn)   == [type |-> "function",  str |-> <<>>, fn |-> fn]
AUndef    == [type |-> "undefined", str |-> <<>>, fn |-> ""]

\* String.prototype.split(' ')
RECURSIVE SplitFrom(_, _, _, _)
SplitFrom(str, i, cur, acc) ==
  IF i > Len(str) THEN Append(acc, cur)
  ELSE IF str[i] = " " THEN SplitFrom(str, i + 1, <<>>, Append(acc, cur))
  ELSE SplitFrom(str, i + 1, Append(cur, str[i]), acc)

Split(str) == SplitFrom(str, 1, <<>>, <<>>)

\* keys.forEach(function(key) { _this[stage][key] = fn; })
RECURSIVE SetEach(_, _, _, _)
SetEach(reg, keys, fn, k) ==
  IF k > Len(keys) THEN reg
  ELSE SetEach((keys[k] :> fn) @@ reg, keys, fn, k + 1)

\* A registration that stops after the first key of the split name.
AddTransformFirstKey(reg, res, name, fn) ==
  LET name1 == IF name.type = "function" THEN AStr(res) ELSE name
      fn1   == IF name.type = "function" THEN name ELSE fn
  IN  IF fn1.type # "function" THEN [threw |-> FALSE, reg |-> reg]
      ELSE IF name1.type # "string" THEN [threw |-> TRUE, reg |-> reg]
      ELSE [threw |-> FALSE,
            reg |-> (Split(name1.str)[1] :> fn1.fn) @@ reg]

\* _addTransform(name, fn, stage), on the registry reg of that stage, for an
\* instance whose _resource is res.  Splitting a name that is not a string throws.
_addTransform(reg, res, name, fn) ==
  LET name1 == IF name.type = "function" THEN AStr(res) ELSE name
      fn1   == IF name.type = "function" THEN name ELSE fn
  IN  IF fn1.type # "function" THEN [threw |-> FALSE, reg |-> reg]
      ELSE IF name1.type # "string" THEN [threw |-> TRUE, reg |-> reg]
      ELSE [threw |-> FALSE, reg |-> SetEach(reg, Split(name1.str), fn1.fn, 1)]

TOp(op, i, args, threw) ==
  [op |-> op, inst |-> i, name |-> <<>>, args |-> args, threw |-> threw]

\* before(name, fn)
Before(i, name, fn) ==
  LET r == _addTransform(_before, _resource[i], name, fn)
  IN  /\ _before' = r.reg
      /\ lastOp' = TOp("before", i, <<name, fn>>, r.threw)
      /\ hist' = [hist EXCEPT ![i].ncalls = @ + 1]
      /\ UNCHANGED <<namespace, _resource, lastNamed, conn, pending, models,
                     routes, _schema, _after>>
      /\ UNCHANGED <<optVars, corsVars>>

\* after(name, fn)
After(i, name, fn) ==
  LET r == _addTransform(_after, _resource[i], name, fn)
  IN  /\ _after' = r.reg
      /\ lastOp' = TOp("after", i, <<name, fn>>, r.threw)
      /\ hist' = [hist EXCEPT ![i].ncalls = @ + 1]
      /\ UNCHANGED <<namespace, _resource, lastNamed, conn, pending, models,
                     routes, _schema, _before>>
      /\ UNCHANGED <<optVars, corsVars>>

\* transform(...args): with fewer than three arguments the name is this._resource
Transform(i, args) ==
  LET Arg(k) == IF k <= Len(args) THEN args[k] ELSE AUndef
      short  == Len(args) < 3
      name   == IF short THEN AStr(_resource[i]) ELSE Arg(1)
      before == IF short THEN Arg(1) ELSE Arg(2)
      after  == IF short THEN Arg(2) ELSE Arg(3)
      b      == _addTransform(_before, _resource[i], name, before)
      a      == _addTransform(_after, _resource[i], name, after)
  IN  /\ _before' = b.reg
      /\ _after' = IF b.threw THEN _after ELSE a.reg
      /\ lastOp' = TOp("transform", i, args, b.threw \/ a.threw)
      /\ hist' = [hist EXCEPT ![i].ncalls = @ + 1]
      /\ UNCHANGED <<namespace, _resource, lastNamed, conn, pending, models,
                     routes, _schema>>
      /\ UNCHANGED <<optVars, corsVars>>

\* What an instance reads as this._schema, this._before and this._after: no
\* instance has an own property of these names, so the lookup ends at the
\* prototype.
InstSchema(i) == _schema
InstBefore(i) == _before
InstAfter(i)  == _after

(***************************************************************************)
(* Inputs.                                                                 *)
(***************************************************************************)
AllKeys == Range(DefaultKeyOrder) \cup {"extra"}

SuppliedVals ==
  {Undefined, Null, JFalse, JNum("0"), JStr(""), JStr("x"), JTrue}

OptionArgs ==
  {PrimArg(Undefined), PrimArg(Null), PrimArg(JStr("x")), PrimArg(JNum("1")),
   PrimArg(JTrue)}
  \cup {ObjArg(props) :
          props \in UNION {[D -> SuppliedVals] :
                             D \in {K \in SUBSET AllKeys : Cardinality(K) <= MaxSupplied}}}

HostA  == <<"a">>
HostB  == <<"b">>
HostAB == <<"a", "b">>

OriginLists == {<<>>, <<HostA>>, <<HostB>>, <<HostA, HostB>>, <<HostB, HostA>>}

CorsVals ==
  {JTrue, JFalse, Null, JNum("0"), JStr("yes"), EmptyObj}
  \cup {CorsObj(l) : l \in OriginLists}

CorsArgs ==
  {PrimArg(Undefined), ObjArg(<<>>)} \cup {ObjArg("cors" :> c) : c \in CorsVals}

Requests == [origin : {<<>>, HostA, HostB, HostAB}, method : {"GET", "OPTIONS"}]

Namespaces == {<<>>, <<"/", "v", "1">>}

Schemas ==
  {NonObjSchema,
   ObjSchema("name" :> "String"),
   ObjSchema(("id" :> "Number") @@ ("href" :> "String") @@ ("links" :> "String")
             @@ ("name" :> "Number"))}

RegSchemas == {ObjSchema(("id" :> "Number") @@ ("name" :> "String"))}

\* Arguments of readOnly and noIndex: a resource name, or none.
MarkerArgs ==
  {[hasName |-> TRUE, name |-> n] : n \in ResNames}
  \cup {[hasName |-> FALSE, name |-> <<>>]}

Fails == {"none", "schema", "model", "route"}

Join(tokens) ==
  LET RECURSIVE J(_)
      J(k) == IF k > Len(tokens) THEN <<>>
              ELSE IF k = Len(tokens) THEN tokens[k]
              ELSE tokens[k] \o <<" ">> \o J(k + 1)
  IN  J(1)

\* Name arguments: resource names, alternating, joined by single spaces; a
\* name listed twice; the empty string; a name with two spaces in a row.
NameStrings ==
  {Join(ts) : ts \in {t \in UNION {[1..n -> ResNames] : n \in 1..MaxTokens} :
                        \A k \in 1..(Len(t) - 1) : t[k] # t[k + 1]}}
  \cup {Join(<<Cat, Cat>>), <<>>, Join(<<Cat, <<>>, Dog>>)}

\* Arguments of before(name, fn) and after(name, fn): every name string with
\* a function, the form without a name, and forms without a function or
\* without a usable name.
StageArgs ==
  ({AStr(str) : str \in NameStrings} \X {AFn("f")})
  \cup {<<AStr(Cat), AFn("g")>>, <<AFn("g"), AUndef>>,
        <<AStr(Cat), AUndef>>, <<AUndef, AFn("f")>>}

\* Arguments of transform: two functions without a name, or a name and two.
TransformArgs ==
  {<<AFn("f"), AFn("g")>>, <<AFn("g"), AUndef>>,
   <<AStr(Cat), AFn("f"), AFn("g")>>,
   <<AStr(Join(<<Dog, Cat>>)), AFn("f"), AFn("g")>>,
   <<AStr(Cat), AUndef, AFn("g")>>}

(***************************************************************************)
(* Specifications.                                                         *)
(***************************************************************************)
OptCorsInit ==
  /\ ctorArg = PrimArg(Undefined)
  /\ ctor = [status |-> "none", options |-> <<>>]
  /\ corsUsed = FALSE
  /\ origins = OStr(StarStr)
  /\ nreq = 0
  /\ lastReq = [origin |-> <<>>, method |-> "GET"]
  /\ lastRes = NoRes

AppInit(nss) ==
  /\ \E ns \in nss : namespace = [i \in Instances |-> ns]
  /\ _resource = [i \in Instances |-> <<>>]
  /\ lastNamed = [i \in Instances |-> <<>>]
  /\ conn = [i \in Instances |-> "pending"]
  /\ pending = [i \in Instances |-> <<>>]
  /\ models = [i \in Instances |-> {}]
  /\ routes = [i \in Instances |-> [verb \in Verbs |-> <<>>]]
  /\ _schema = <<>>
  /\ _before = <<>>
  /\ _after = <<>>
  /\ hist = [i \in Instances |->
               [ncalls |-> 0, byName |-> [n \in ResNames |-> NoHist]]]
  /\ lastOp = Op("none", 0, <<>>)

\* Construction of an instance from an options argument.
OptInit == OptCorsInit /\ AppInit({<<>>})
OptNext == \E arg \in OptionArgs : Create(arg)
SpecOpt == OptInit /\ [][OptNext]_vars

\* Construction followed by requests through the CORS middleware.
CorsInit == OptCorsInit /\ AppInit({<<>>})
CorsNext ==
  \/ \E arg \in CorsArgs : Create(arg)
  \/ \E req \in Requests : Request(req)
SpecCors == CorsInit /\ [][CorsNext]_vars

\* One instance: resources, route removal, the connection and its callbacks.
Init == OptCorsInit /\ AppInit(Namespaces)
Next ==
  \/ /\ Calls(1) < MaxCalls
     /\ \E n \in ResNames, s \in Schemas : Resource(1, n, s)
  \/ /\ Calls(1) < MaxCalls
     /\ \E a \in MarkerArgs : ReadOnly(1, a.hasName, a.name)
  \/ /\ Calls(1) < MaxCalls
     /\ \E a \in MarkerArgs : NoIndex(1, a.hasName, a.name)
  \/ Connect(1)
  \/ ConnectFail(1)
  \/ \E fail \in Fails : RunRegister(1, fail)
  \/ RunRemove(1)
Spec == Init /\ [][Next]_vars

\* Two instances: resources and the transform registries.
RegCalls == Calls(1) + Calls(2)
RegInit == OptCorsInit /\ AppInit({<<>>})
RegNext ==
  \E i \in Instances :
    \/ /\ RegCalls < MaxRegCalls
       /\ \E n \in ResNames, s \in RegSchemas : Resource(i, n, s)
    \/ /\ RegCalls < MaxRegCalls
       /\ \E a \in StageArgs : Before(i, a[1], a[2])
    \/ /\ RegCalls < MaxRegCalls
       /\ \E a \in StageArgs : After(i, a[1], a[2])
    \/ /\ RegCalls < MaxRegCalls
       /\ \E args \in TransformArgs : Transform(i, args)
    \/ Connect(i)
    \/ \E fail \in {"none", "schema"} : RunRegister(i, fail)
SpecReg == RegInit /\ [][RegNext]_vars

(***************************************************************************)
(* Properties.                                                             *)
(***************************************************************************)
DefaultKeys == Range(DefaultKeyOrder)
Reserved    == {"id", "href", "links"}
Writes      == {"post", "put", "patch", "delete"}

\* The options an argument should yield: the caller's own keys, and the
\* default for every default key the caller did not supply.
ExpectedOptions(arg) ==
  LET own == IF arg.v.type = "object" THEN arg.props ELSE <<>>
  IN  [k \in DOMAIN own \cup DefaultKeys |->
         IF k \in DOMAIN own THEN own[k] ELSE _defaults[k]]

\* C1: every construction yields an instance whose options hold the caller's
\* value for each key the caller supplied and the default for each other
\* default key, and exactly the defaults when the argument is not an object.
C1_DefaultsUnlessOverridden ==
  ctor.status # "none" =>
    /\ ctor.status = "ok"
    /\ ctor.options = ExpectedOptions(ctorArg)

PathsOf(i, verb) == Range(routes[i][verb])
ResourcePaths(i, n) ==
  {CollectionRoute(namespace[i], n), IndividualRoute(namespace[i], n)}

\* C2: once a defined resource was marked read-only, the connection has
\* resolved and no callback is pending, the router holds no post, put, patch
\* or delete route of that resource, and still holds its GET routes.
C2_ReadOnlyDestroysWrites ==
  \A n \in ResNames :
    (hist[1].byName[n].readOnly /\ conn[1] = "resolved" /\ pending[1] = <<>>) =>
      /\ \A verb \in Writes : PathsOf(1, verb) \cap ResourcePaths(1, n) = {}
      /\ (n \in models[1] /\ hist[1].byName[n].fails = 0
            /\ ~hist[1].byName[n].noIndex)
           => ResourcePaths(1, n) \subseteq PathsOf(1, "get")

\* C3: with options.cors false no request gets Access-Control headers and no
\* OPTIONS request is intercepted; with cors true or omitted every request
\* carrying an Origin header gets them.
C3_CorsToggle ==
  (ctor.status = "ok" /\ nreq > 0) =>
    /\ ctor.options["cors"] = JFalse =>
         (~lastRes.acHeaders /\ lastRes.sends = 0)
    /\ (ctor.options["cors"] = JTrue /\ lastReq.origin # <<>>) =>
         lastRes.acHeaders

Scrubbed(fields) == [f \in DOMAIN fields \ Reserved |-> fields[f]]

\* C4: for every name the adapter's schema definition and the route
\* registration run at most once, and the stored schema is the one of the
\* first resource() call for that name.
C4_ResourceNamesUnique ==
  \A n \in ResNames :
    /\ hist[1].byName[n].schemaCalls <= 1
    /\ hist[1].byName[n].routeCalls <= 1
    /\ hist[1].byName[n].runs > 0 =>
         (n \in DOMAIN _schema /\ _schema[n] = Scrubbed(hist[1].byName[n].first))

\* C5: a name whose every registration threw has no stored schema entry and
\* no routes.
C5_FailedRegistrationSkipped ==
  \A n \in ResNames :
    (hist[1].byName[n].runs > 0
       /\ hist[1].byName[n].runs = hist[1].byName[n].fails) =>
      /\ n \notin DOMAIN _schema
      /\ \A verb \in Verbs : PathsOf(1, verb) \cap ResourcePaths(1, n) = {}

\* The names listed in a space-separated string: the pieces between two
\* neighbouring boundaries, a boundary being a space or an end of the string.
Boundaries(str) == {0, Len(str) + 1} \cup {k \in 1..Len(str) : str[k] = " "}
Listed(str) ==
  {SubSeq(str, p + 1, q - 1) :
     <<p, q>> \in {b \in Boundaries(str) \X Boundaries(str) :
                     /\ b[1] < b[2]
                     /\ \A k \in Boundaries(str) : ~(b[1] < k /\ k < b[2])}}

\* post is pre with fn under every key of keys; a value that is not a
\* function leaves the registry as it was.
StageSet(pre, post, keys, f) ==
  IF f.type = "function"
    THEN /\ DOMAIN post = DOMAIN pre \cup keys
         /\ \A k \in DOMAIN post : post[k] = IF k \in keys THEN f.fn ELSE pre[k]
    ELSE post = pre

C6_Step ==
  LET op == lastOp'
      i  == op.inst
      a  == op.args
  IN  /\ (op.op \in {"before", "after"} /\ a[1].type = "string") =>
           /\ StageSet(_before, _before', Listed(a[1].str),
                       IF op.op = "before" THEN a[2] ELSE AUndef)
           /\ StageSet(_after, _after', Listed(a[1].str),
                       IF op.op = "after" THEN a[2] ELSE AUndef)
      /\ (op.op \in {"before", "after"} /\ a[1].type = "function") =>
           /\ StageSet(_before, _before', {lastNamed[i]},
                       IF op.op = "before" THEN a[1] ELSE AUndef)
           /\ StageSet(_after, _after', {lastNamed[i]},
                       IF op.op = "after" THEN a[1] ELSE AUndef)
      /\ (op.op = "transform" /\ Len(a) = 2) =>
           /\ StageSet(_before, _before', {lastNamed[i]}, a[1])
           /\ StageSet(_after, _after', {lastNamed[i]}, a[2])
      /\ (op.op = "transform" /\ Len(a) = 3 /\ a[1].type = "string") =>
           /\ StageSet(_before, _before', Listed(a[1].str), a[2])
           /\ StageSet(_after, _after', Listed(a[1].str), a[3])

\* C6: before (after) with a space-separated name sets the function as the
\* before (after) transform of exactly the listed names and changes no other
\* entry of either registry; without a name the function is registered for
\* the name of the latest resource() call; a non-function changes nothing.
C6_TransformRegistry == [][C6_Step]_vars

\* C6 witness: before('cat dog', f) has run, and the after transform g of cat stays.
C6_Witness ==
  /\ lastOp.op = "before"
  /\ lastOp.args = <<AStr(Join(<<Cat, Dog>>)), AFn("f")>>
  /\ {Cat, Dog} \subseteq DOMAIN _before
  /\ _before[Cat] = "f" /\ _before[Dog] = "f"
  /\ Cat \in DOMAIN _after /\ _after[Cat] = "g"

C7_Step ==
  (lastOp'.op = "remove" /\ lastOp'.args # <<>>) =>
    LET i       == lastOp'.inst
        index   == namespace[i] \o <<"/">> \o Pluralize(lastOp'.name)
        Kept(p) == p # index
    IN  /\ routes'[i]["get"] = SelectSeq(routes[i]["get"], Kept)
        /\ \A verb \in Verbs \ {"get"} : routes'[i][verb] = routes[i][verb]
        /\ \A j \in Instances \ {i} : routes'[j] = routes[j]

\* C7: when noIndex takes effect, every GET route whose path is exactly
\* namespace + '/' + pluralized name is gone and every other route of the
\* router is unchanged.
C7_NoIndexDestroysOnlyIndex == [][C7_Step]_vars

\* C7 witness: the index of the routed resource cat is gone, its item route
\* and its POST collection route are still there.
C7_Witness ==
  /\ lastOp.op = "remove" /\ lastOp.args # <<>> /\ lastOp.name = Cat
  /\ CollectionRoute(namespace[1], Cat) \notin PathsOf(1, "get")
  /\ IndividualRoute(namespace[1], Cat) \in PathsOf(1, "get")
  /\ CollectionRoute(namespace[1], Cat) \in PathsOf(1, "post")

C8_Step ==
  lastOp'.op = "register" =>
    LET i    == lastOp'.inst
        n    == lastOp'.name
        mine == Head(pending[i]).fields
    IN  /\ n \in DOMAIN _schema'
        /\ DOMAIN _schema'[n] = DOMAIN mine \ Reserved
        /\ \A f \in DOMAIN _schema'[n] : _schema'[n][f] = mine[f]
        /\ hist'[i].byName[n].handed = _schema'[n]

\* C8: no stored schema has a key id, href or links; a registration stores,
\* and hands to adapter.schema, the caller's schema without those keys and
\* with every other field as supplied.
C8_ReservedKeysScrubbed ==
  /\ [](\A n \in DOMAIN _schema : DOMAIN _schema[n] \cap Reserved = {})
  /\ [][C8_Step]_vars

\* C8 witness: a schema with reserved and ordinary fields has been registered.
C8_Witness ==
  /\ lastOp.op = "register"
  /\ Reserved \cap DOMAIN hist[1].byName[lastOp.name].supplied # {}
  /\ "name" \in DOMAIN hist[1].byName[lastOp.name].supplied
  /\ lastOp.name \in DOMAIN _schema
  /\ "name" \in DOMAIN _schema[lastOp.name]

\* C9: with a configured list of origins, Access-Control-Allow-Origin is set
\* to the request's Origin only if the list holds it, a request whose Origin
\* is not in the list gets no Access-Control headers, and every request is
\* continued exactly once.
C9_OriginsListHonoured ==
  (ctor.status = "ok" /\ ctor.options["cors"].hasOrigins /\ nreq > 0) =>
    LET list == ctor.options["cors"].origins
    IN  /\ lastRes.acHeaders =>
             (lastRes.acao = OStr(lastReq.origin) /\ Contains(list, lastReq.origin))
        /\ ~Contains(list, lastReq.origin) => ~lastRes.acHeaders
        /\ lastRes.nexts + lastRes.sends = 1

C10_Step ==
  \A i \in Instances :
    (lastOp'.inst = i
       /\ lastOp'.op \in {"resource", "register", "before", "after", "transform"}) =>
      \A j \in Instances \ {i} :
        /\ InstSchema(j)' = InstSchema(j)
        /\ InstBefore(j)' = InstBefore(j)
        /\ InstAfter(j)' = InstAfter(j)

\* C10: resource, before, after and transform calls on one instance leave the
\* stored schemas and both transform registries of every other instance
\* unchanged.
C10_InstancesIndependent == [][C10_Step]_vars

====
